---- MODULE Spec2Model ----
(***************************************************************************)
(* Model of backend/app.py: the image normaliser (preprocess_image) and    *)
(* the hybrid OCR decision pipeline (run_hybrid_ocr).                      *)
(*                                                                         *)
(* Texts are sequences of Unicode code points.  Floating point values are  *)
(* IEEE-754 binary64 numbers, kept as a 53-bit significand (a sequence of  *)
(* bits, most significant first) and the exponent of its last bit.         *)
(***************************************************************************)
EXTENDS Integers, Sequences, FiniteSets, TLC

VARIABLES pc, img_w, img_h, proc_w, proc_h,
          easy_text, tesseract_sin_text, tesseract_nep_text,
          debug, candidates, candidates_sorted, best,
          chosen_text, engine_used, detected_lang,
          calls, raisedBy

vars == <<pc, img_w, img_h, proc_w, proc_h,
          easy_text, tesseract_sin_text, tesseract_nep_text,
          debug, candidates, candidates_sorted, best,
          chosen_text, engine_used, detected_lang,
          calls, raisedBy>>

(***************************************************************************)
(* Bounds of the model.                                                    *)
(***************************************************************************)
\* longest text an engine returns
MaxLen == 2
\* most regions EasyOCR's readtext returns
MaxRegions == 2
\* widest and tallest input image of the normaliser's specification
MaxW == 1700
MaxH == 2

(***************************************************************************)
(* Program constants.                                                      *)
(***************************************************************************)
UpscaleWidth == 1600
DevLo == 2304
DevHi == 2431
SinLo == 3456
SinHi == 3583
MantissaBits == 53
\* width of the limbs of the long multiplication
ChunkBits == 16

\* code points the engines' texts are drawn from:
\* SPACE, '#', U+097F (Devanagari), U+0D85 (Sinhala)
Alphabet == {32, 35, 2431, 3461}

\* str.isspace(): the characters str.strip() removes
WhitespaceChars ==
    (9..13) \cup (28..32) \cup {133, 160, 5760} \cup (8192..8202)
        \cup {8232, 8233, 8239, 8287, 12288}

Engines == {"easyocr", "tesseract-sin", "tesseract-nep"}

ErrorKey(engine) ==
    CASE engine = "easyocr" -> "easy_error"
      [] engine = "tesseract-sin" -> "tess_sin_error"
      [] engine = "tesseract-nep" -> "tess_nep_error"

\* str(e) of an engine's exception
ErrMsgs == {"engine failed"}

Strings(n) == UNION {[1..k -> Alphabet] : k \in 0..n}

(***************************************************************************)
(* binary64 arithmetic used by preprocess_image                            *)
(***************************************************************************)
RECURSIVE NatBits(_)
NatBits(n) == IF n = 0 THEN <<>> ELSE Append(NatBits(n \div 2), n % 2)

RECURSIVE BitsNat(_)
BitsNat(bits) ==
    IF bits = <<>> THEN 0
    ELSE 2 * BitsNat(SubSeq(bits, 1, Len(bits) - 1)) + bits[Len(bits)]

Zeros(n) == [i \in 1..n |-> 0]

RECURSIVE Pow2(_)
Pow2(n) == IF n <= 0 THEN 1 ELSE 2 * Pow2(n - 1)

Square(x) == x * x

\* 2^i modulo d
RECURSIVE Pow2Mod(_, _)
Pow2Mod(i, d) ==
    IF i = 0 THEN 1 % d
    ELSE (Square(Pow2Mod(i \div 2, d)) * (IF i % 2 = 1 THEN 2 ELSE 1)) % d

\* bits without its leading zeros
StripLeadingZeros(bits) ==
    IF \A i \in DOMAIN bits : bits[i] = 0 THEN <<>>
    ELSE LET first == CHOOSE i \in DOMAIN bits :
                          bits[i] = 1 /\ \A j \in 1..(i - 1) : bits[j] = 0
         IN  SubSeq(bits, first, Len(bits))

\* bits + 1; the result is one bit longer when every bit is 1
IncBits(bits) ==
    IF \A i \in DOMAIN bits : bits[i] = 1 THEN <<1>> \o Zeros(Len(bits))
    ELSE LET z == CHOOSE i \in DOMAIN bits :
                      bits[i] = 0 /\ \A j \in (i + 1)..Len(bits) : bits[j] = 1
         IN  SubSeq(bits, 1, z - 1) \o <<1>> \o Zeros(Len(bits) - z)

\* Round to nearest, ties to even: the binary64 nearest to
\* (bits + f) * 2^e, where bits starts with a 1 and 0 <= f < 1 is nonzero
\* exactly when sticky holds.
RoundNearestEven(bits, sticky, e) ==
    LET n == Len(bits) IN
    IF n <= MantissaBits
    THEN [m |-> bits \o Zeros(MantissaBits - n), e |-> e - (MantissaBits - n)]
    ELSE LET keep == SubSeq(bits, 1, MantissaBits)
             guard == bits[MantissaBits + 1]
             rest == sticky \/ \E i \in (MantissaBits + 2)..n : bits[i] = 1
             up == guard = 1 /\ (rest \/ keep[MantissaBits] = 1)
             inc == IncBits(keep)
             e1 == e + (n - MantissaBits)
         IN  IF ~up THEN [m |-> keep, e |-> e1]
             ELSE IF Len(inc) > MantissaBits
                  THEN [m |-> SubSeq(inc, 1, MantissaBits), e |-> e1 + 1]
                  ELSE [m |-> inc, e |-> e1]

\* the remainder of the long division r / d after i bits below the point
DivRem(r, d, i) == (r * Pow2Mod(i, d)) % d

\* the first nfrac bits of r / d below the binary point, for 0 <= r < d
FracBits(r, d, nfrac) ==
    [i \in 1..nfrac |-> IF 2 * DivRem(r, d, i - 1) >= d THEN 1 ELSE 0]

\* long division n / d continued below the binary point until the quotient
\* has a guard bit after its significand
DivStream(n, d) ==
    LET int == NatBits(n \div d)
        r == n % d
        \* n >= 1, so the quotient's first 1 is within Len(NatBits(d)) bits
        lead == IF int # <<>> THEN 0
                ELSE Len(NatBits(d)) -
                     Len(StripLeadingZeros(FracBits(r, d, Len(NatBits(d)))))
        nfrac == IF Len(int) > MantissaBits THEN 0
                 ELSE lead + MantissaBits + 1 - Len(int)
    IN  [bits |-> StripLeadingZeros(int \o FracBits(r, d, nfrac)),
         rem |-> DivRem(r, d, nfrac), e |-> 0 - nfrac]

\* n / float(d) for integers n, d > 0
FloatDiv(n, d) ==
    LET q == DivStream(n, d)
    IN  RoundNearestEven(q.bits, q.rem # 0, q.e)

\* bits, as an integer, in chunks of ChunkBits bits: chunk 0 is the lowest
Chunk(bits, j) ==
    BitsNat(SubSeq(bits,
                   IF Len(bits) - ChunkBits * (j + 1) + 1 < 1 THEN 1
                   ELSE Len(bits) - ChunkBits * (j + 1) + 1,
                   Len(bits) - ChunkBits * j))

PadChunk(bits) == Zeros(ChunkBits - Len(bits)) \o bits

\* bits * w + carry * 2^(ChunkBits * j) from chunk j upwards, for a small w
RECURSIVE MulChunks(_, _, _, _)
MulChunks(bits, w, j, carry) ==
    IF ChunkBits * j >= Len(bits) THEN NatBits(carry)
    ELSE MulChunks(bits, w, j + 1, (Chunk(bits, j) * w + carry) \div Pow2(ChunkBits))
             \o PadChunk(NatBits((Chunk(bits, j) * w + carry) % Pow2(ChunkBits)))

\* bits * w for a small natural w
MulSmall(bits, w) == StripLeadingZeros(MulChunks(bits, w, 0, 0))

\* w * x for an integer w > 0 and a float x
FloatMulInt(w, x) == RoundNearestEven(MulSmall(x.m, w), FALSE, x.e)

\* int(x): truncation toward zero
FloatToInt(x) ==
    IF x.e >= 0 THEN BitsNat(x.m) * Pow2(x.e)
    ELSE BitsNat(SubSeq(x.m, 1, MantissaBits + x.e))

(***************************************************************************)
(* preprocess_image                                                        *)
(***************************************************************************)
\* the size of the image preprocess_image returns
preprocess_image(w, h, upscale_width) ==
    IF w < upscale_width
    THEN LET scale == FloatDiv(upscale_width, w)
         IN  <<FloatToInt(FloatMulInt(w, scale)), FloatToInt(FloatMulInt(h, scale))>>
    ELSE <<w, h>>

(***************************************************************************)
(* Script classifier and text helpers                                      *)
(***************************************************************************)
\* the Devanagari range with its last code point left out
RECURSIVE CountDevanagariExclusive(_)
CountDevanagariExclusive(text) ==
    IF text = <<>> THEN 0
    ELSE (IF DevLo <= Head(text) /\ Head(text) < DevHi THEN 1 ELSE 0)
             + CountDevanagariExclusive(Tail(text))

RECURSIVE count_devanagari_chars(_)
count_devanagari_chars(text) ==
    IF text = <<>> THEN 0
    ELSE (IF DevLo <= Head(text) /\ Head(text) <= DevHi THEN 1 ELSE 0)
             + count_devanagari_chars(Tail(text))

RECURSIVE count_sinhala_chars(_)
count_sinhala_chars(text) ==
    IF text = <<>> THEN 0
    ELSE (IF SinLo <= Head(text) /\ Head(text) <= SinHi THEN 1 ELSE 0)
             + count_sinhala_chars(Tail(text))

RECURSIVE LStrip(_)
LStrip(text) ==
    IF text # <<>> /\ Head(text) \in WhitespaceChars THEN LStrip(Tail(text))
    ELSE text

RECURSIVE RStrip(_)
RStrip(text) ==
    IF text # <<>> /\ text[Len(text)] \in WhitespaceChars
    THEN RStrip(SubSeq(text, 1, Len(text) - 1))
    ELSE text

\* str.strip(), broken: strips leading whitespace only
StripLeftOnly(text) == LStrip(text)

\* a clean-up that also strips every non-ASCII character off both ends
RECURSIVE StripNonAscii(_)
StripNonAscii(text) ==
    IF text # <<>> /\ (Head(text) \in WhitespaceChars \/ Head(text) > 127)
    THEN StripNonAscii(Tail(text))
    ELSE IF text # <<>> /\ (text[Len(text)] \in WhitespaceChars \/ text[Len(text)] > 127)
         THEN StripNonAscii(SubSeq(text, 1, Len(text) - 1))
         ELSE text

\* str.strip()
Strip(text) == RStrip(LStrip(text))

\* what EasyOCR's readtext(detail=0) returns: a list of items, strings or not
NonStr == [isstr |-> FALSE, val |-> <<>>]
EasyItems == {[isstr |-> TRUE, val |-> t] : t \in Strings(MaxLen)} \cup {NonStr}
EasyResultLists == UNION {[1..k -> EasyItems] : k \in 0..MaxRegions}

\* [t for t in easy_result_list if isinstance(t, str)]
OnlyStr(list) == SelectSeq(list, LAMBDA t : t.isstr)

\* " ".join(items)
RECURSIVE JoinSpace(_)
JoinSpace(items) ==
    IF items = <<>> THEN <<>>
    ELSE IF Len(items) = 1 THEN items[1].val
         ELSE items[1].val \o <<32>> \o JoinSpace(Tail(items))

Max(a, b) == IF a >= b THEN a ELSE b

\* len(text) instead of len(text.strip())
LengthUnstripped(text) == Len(text)

\* c['length'] = len(c['text'].strip())
Length(text) == Len(Strip(text))

\* the scoring loop applied to one candidate
Score(c) ==
    LET dev_score == c.dev_count
        sin_score == c.sin_count
    IN  [text |-> c.text, engine |-> c.engine,
         dev_count |-> c.dev_count, sin_count |-> c.sin_count,
         dev_score |-> dev_score, sin_score |-> sin_score,
         primary_score |-> Max(dev_score, sin_score),
         length |-> Length(c.text)]

\* the candidates list with the engine labels of the two Tesseract texts swapped
MakeCandidatesSwapped(easy, nep, sin) ==
    << [text |-> easy, engine |-> "easyocr",
        dev_count |-> count_devanagari_chars(easy),
        sin_count |-> count_sinhala_chars(easy)],
       [text |-> sin, engine |-> "tesseract-nep",
        dev_count |-> count_devanagari_chars(sin),
        sin_count |-> count_sinhala_chars(sin)],
       [text |-> nep, engine |-> "tesseract-sin",
        dev_count |-> count_devanagari_chars(nep),
        sin_count |-> count_sinhala_chars(nep)] >>

\* the candidates list, in its fixed order
MakeCandidates(easy, nep, sin) ==
    << [text |-> easy, engine |-> "easyocr",
        dev_count |-> count_devanagari_chars(easy),
        sin_count |-> count_sinhala_chars(easy)],
       [text |-> nep, engine |-> "tesseract-nep",
        dev_count |-> count_devanagari_chars(nep),
        sin_count |-> count_sinhala_chars(nep)],
       [text |-> sin, engine |-> "tesseract-sin",
        dev_count |-> count_devanagari_chars(sin),
        sin_count |-> count_sinhala_chars(sin)] >>

\* the sort key (primary_score, length), compared as Python compares tuples
KeyLess(a, b) ==
    \/ a.primary_score < b.primary_score
    \/ a.primary_score = b.primary_score /\ a.length < b.length

RECURSIVE Reverse(_)
Reverse(s) == IF s = <<>> THEN <<>> ELSE Append(Reverse(Tail(s)), Head(s))

\* x put into the ascending list after every element not greater than it
RECURSIVE InsertStable(_, _)
InsertStable(x, sorted) ==
    IF sorted = <<>> THEN <<x>>
    ELSE IF KeyLess(x, Head(sorted)) THEN <<x>> \o sorted
         ELSE <<Head(sorted)>> \o InsertStable(x, Tail(sorted))

\* list.sort(): stable, ascending
RECURSIVE SortAscending(_)
SortAscending(s) ==
    IF s = <<>> THEN <<>>
    ELSE InsertStable(s[Len(s)], SortAscending(SubSeq(s, 1, Len(s) - 1)))

\* sorted(...)[::-1]: equal elements come out in reverse order
SortedThenReversed(s) == Reverse(SortAscending(s))

\* sorted(..., reverse=True): the list is reversed, sorted and reversed
\* again, so that equal elements keep their order
SortedReverse(s) == Reverse(SortAscending(Reverse(s)))

\* the last of the longest candidates
RECURSIVE MaxByLengthLast(_)
MaxByLengthLast(s) ==
    IF Len(s) = 1 THEN s[1]
    ELSE LET m == MaxByLengthLast(SubSeq(s, 1, Len(s) - 1))
         IN  IF s[Len(s)].length >= m.length THEN s[Len(s)] ELSE m

\* max(candidates, key=length): the first of the longest candidates
RECURSIVE MaxByLength(_)
MaxByLength(s) ==
    IF Len(s) = 1 THEN s[1]
    ELSE LET m == MaxByLength(SubSeq(s, 1, Len(s) - 1))
         IN  IF s[Len(s)].length > m.length THEN s[Len(s)] ELSE m

\* best, after the zero-score fallback
PickBest(cands, sorted) ==
    IF sorted[1].primary_score = 0 THEN MaxByLength(cands) ELSE sorted[1]

\* the language test with >= for >
DetectLanguageLoose(text) ==
    IF count_devanagari_chars(text) >= count_sinhala_chars(text) THEN "ne"
    ELSE IF count_sinhala_chars(text) > count_devanagari_chars(text) THEN "si"
    ELSE "unknown"

\* detected_lang, from the script counts of the chosen text
DetectLanguage(text) ==
    IF count_devanagari_chars(text) > count_sinhala_chars(text) THEN "ne"
    ELSE IF count_sinhala_chars(text) > count_devanagari_chars(text) THEN "si"
    ELSE "unknown"

\* an except clause that drops the message
CatchDropped(dbg, key, msg) == dbg

\* except Exception as e: debug[key] = str(e)
Catch(dbg, key, msg) == (key :> msg) @@ dbg

(***************************************************************************)
(* run_hybrid_ocr                                                          *)
(***************************************************************************)
NoCandidate == [engine |-> "none"]

\* run_hybrid_ocr up to the first engine call: preprocessing and the
\* conversion for EasyOCR; a decode-level error leaves the function
Preprocess ==
    /\ pc = "preprocess"
    /\ \E ok \in BOOLEAN :
         IF ok
         THEN /\ proc_w' = preprocess_image(img_w, img_h, UpscaleWidth)[1]
              /\ proc_h' = preprocess_image(img_w, img_h, UpscaleWidth)[2]
              /\ pc' = "easyocr"
         ELSE /\ pc' = "raised"
              /\ UNCHANGED <<proc_w, proc_h>>
    /\ UNCHANGED <<img_w, img_h, easy_text, tesseract_sin_text, tesseract_nep_text,
                   debug, candidates, candidates_sorted, best,
                   chosen_text, engine_used, detected_lang, calls, raisedBy>>

\* 1) EasyOCR: readtext returns a list of regions or raises
CallEasyOCR ==
    /\ pc = "easyocr"
    /\ \/ \E list \in EasyResultLists :
            /\ Len(JoinSpace(OnlyStr(list))) <= MaxLen
            /\ easy_text' = JoinSpace(OnlyStr(list))
            /\ debug' = [easy_text |-> easy_text',
                         easy_dev_count |-> count_devanagari_chars(easy_text'),
                         easy_sin_count |-> count_sinhala_chars(easy_text')] @@ debug
            /\ UNCHANGED raisedBy
       \/ \E msg \in ErrMsgs :
            /\ easy_text' = <<>>
            /\ debug' = [easy_text |-> <<>>,
                         easy_dev_count |-> count_devanagari_chars(<<>>),
                         easy_sin_count |-> count_sinhala_chars(<<>>)]
                          @@ Catch(debug, "easy_error", msg)
            /\ raisedBy' = raisedBy \cup {"easyocr"}
    /\ calls' = [calls EXCEPT !["easyocr"] = @ + 1]
    /\ pc' = "tess_sin"
    /\ UNCHANGED <<img_w, img_h, proc_w, proc_h, tesseract_sin_text,
                   tesseract_nep_text, candidates, candidates_sorted, best,
                   chosen_text, engine_used, detected_lang>>

\* 2) Tesseract Sinhala: image_to_string returns a text or raises
CallTesseractSin ==
    /\ pc = "tess_sin"
    /\ \/ \E text \in Strings(MaxLen) :
            /\ tesseract_sin_text' = text
            /\ debug' = [tess_sin_text |-> text,
                         tess_sin_dev_count |-> count_devanagari_chars(text),
                         tess_sin_count |-> count_sinhala_chars(text)] @@ debug
            /\ UNCHANGED raisedBy
       \/ \E msg \in ErrMsgs :
            /\ tesseract_sin_text' = <<>>
            /\ debug' = [tess_sin_text |-> <<>>,
                         tess_sin_dev_count |-> count_devanagari_chars(<<>>),
                         tess_sin_count |-> count_sinhala_chars(<<>>)]
                          @@ Catch(debug, "tess_sin_error", msg)
            /\ raisedBy' = raisedBy \cup {"tesseract-sin"}
    /\ calls' = [calls EXCEPT !["tesseract-sin"] = @ + 1]
    /\ pc' = "tess_nep"
    /\ UNCHANGED <<img_w, img_h, proc_w, proc_h, easy_text,
                   tesseract_nep_text, candidates, candidates_sorted, best,
                   chosen_text, engine_used, detected_lang>>

\* 3) Tesseract Nepali: image_to_string returns a text or raises
CallTesseractNep ==
    /\ pc = "tess_nep"
    /\ \/ \E text \in Strings(MaxLen) :
            /\ tesseract_nep_text' = text
            /\ debug' = [tess_nep_text |-> text,
                         tess_nep_dev_count |-> count_devanagari_chars(text),
                         tess_nep_sin_count |-> count_sinhala_chars(text)] @@ debug
            /\ UNCHANGED raisedBy
       \/ \E msg \in ErrMsgs :
            /\ tesseract_nep_text' = <<>>
            /\ debug' = [tess_nep_text |-> <<>>,
                         tess_nep_dev_count |-> count_devanagari_chars(<<>>),
                         tess_nep_sin_count |-> count_sinhala_chars(<<>>)]
                          @@ Catch(debug, "tess_nep_error", msg)
            /\ raisedBy' = raisedBy \cup {"tesseract-nep"}
    /\ calls' = [calls EXCEPT !["tesseract-nep"] = @ + 1]
    /\ pc' = "select"
    /\ UNCHANGED <<img_w, img_h, proc_w, proc_h, easy_text,
                   tesseract_sin_text, candidates, candidates_sorted, best,
                   chosen_text, engine_used, detected_lang>>

\* scoring, ranking, the zero-score fallback, the language and the return
Select ==
    /\ pc = "select"
    /\ candidates' = [i \in 1..3 |->
           Score(MakeCandidates(easy_text, tesseract_nep_text, tesseract_sin_text)[i])]
    /\ candidates_sorted' = SortedReverse(candidates')
    /\ best' = PickBest(candidates', candidates_sorted')
    /\ chosen_text' = Strip(best'.text)
    /\ engine_used' = best'.engine
    /\ detected_lang' = DetectLanguage(chosen_text')
    /\ debug' = [candidates |-> candidates_sorted',
                 chosen |-> [engine |-> engine_used',
                             detected_lang |-> detected_lang',
                             length |-> Len(chosen_text')]] @@ debug
    /\ pc' = "done"
    /\ UNCHANGED <<img_w, img_h, proc_w, proc_h, easy_text, tesseract_sin_text,
                   tesseract_nep_text, calls, raisedBy>>

InitLocals ==
    /\ pc = "preprocess"
    /\ proc_w = 0
    /\ proc_h = 0
    /\ easy_text = <<>>
    /\ tesseract_sin_text = <<>>
    /\ tesseract_nep_text = <<>>
    /\ debug = <<>>
    /\ candidates = <<>>
    /\ candidates_sorted = <<>>
    /\ best = NoCandidate
    /\ chosen_text = <<>>
    /\ engine_used = "none"
    /\ detected_lang = "none"
    /\ calls = [e \in Engines |-> 0]
    /\ raisedBy = {}

\* preprocess_image over every image size
InitPre ==
    /\ img_w \in 1..MaxW
    /\ img_h \in 1..MaxH
    /\ InitLocals

NextPre == Preprocess

SpecPre == InitPre /\ [][NextPre]_vars

\* run_hybrid_ocr on one image, over every outcome of the three engines
Init ==
    /\ img_w = UpscaleWidth
    /\ img_h = MaxH
    /\ InitLocals

Next ==
    \/ Preprocess
    \/ CallEasyOCR
    \/ CallTesseractSin
    \/ CallTesseractNep
    \/ Select

Spec == Init /\ [][Next]_vars

(***************************************************************************)
(* Reference definitions used by the properties                            *)
(***************************************************************************)
CountIn(text, lo, hi) ==
    Cardinality({i \in DOMAIN text : lo <= text[i] /\ text[i] <= hi})

DevCount(text) == CountIn(text, DevLo, DevHi)
SinCount(text) == CountIn(text, SinLo, SinHi)
HasScript(text) == DevCount(text) > 0 \/ SinCount(text) > 0

NonSpace(text) == {i \in DOMAIN text : text[i] \notin WhitespaceChars}
FirstOf(S) == CHOOSE i \in S : \A j \in S : i <= j
LastOf(S) == CHOOSE i \in S : \A j \in S : j <= i

\* text without its leading and trailing whitespace
Stripped(text) ==
    IF NonSpace(text) = {} THEN <<>>
    ELSE SubSeq(text, FirstOf(NonSpace(text)), LastOf(NonSpace(text)))

PrimaryOf(text) == Max(DevCount(text), SinCount(text))

\* (primaryScore, lengthScore) of a is at least that of b
KeyAtLeast(a, b) ==
    \/ PrimaryOf(a) > PrimaryOf(b)
    \/ PrimaryOf(a) = PrimaryOf(b) /\ Len(Stripped(a)) >= Len(Stripped(b))

SameKey(a, b) ==
    PrimaryOf(a) = PrimaryOf(b) /\ Len(Stripped(a)) = Len(Stripped(b))

\* the raw texts in the fixed order easyocr, tesseract-nep, tesseract-sin
RawTexts == <<easy_text, tesseract_nep_text, tesseract_sin_text>>
FixedOrder == <<"easyocr", "tesseract-nep", "tesseract-sin">>

TextOf(engine) ==
    CASE engine = "easyocr" -> easy_text
      [] engine = "tesseract-sin" -> tesseract_sin_text
      [] engine = "tesseract-nep" -> tesseract_nep_text

ErrorKeys == {ErrorKey(e) : e \in Engines}

\* the position of the selected candidate in the fixed order
BestIndex == CHOOSE i \in 1..3 : FixedOrder[i] = engine_used

LanguageOf(dev, sin) ==
    IF dev > sin THEN "ne" ELSE IF sin > dev THEN "si" ELSE "unknown"

(***************************************************************************)
(* Properties                                                              *)
(***************************************************************************)
\* C1: the three engine calls are fault-isolated.  Once the engine calls are
\* over, whichever of them raised, every engine has been invoked exactly
\* once, a raising engine contributes the empty text and exactly its own
\* error entry, a non-raising engine contributes no error entry, and the
\* function has not raised (it raises only before any engine is called).
C1_FaultIsolation ==
    /\ pc \in {"select", "done"} =>
         \A e \in Engines :
            /\ calls[e] = 1
            /\ e \in raisedBy =>
                 /\ TextOf(e) = <<>>
                 /\ ErrorKey(e) \in DOMAIN debug
                 /\ debug[ErrorKey(e)] \in ErrMsgs
            /\ e \notin raisedBy => ErrorKey(e) \notin DOMAIN debug
    /\ pc = "raised" => \A e \in Engines : calls[e] = 0
    /\ raisedBy # {} => pc \in {"tess_sin", "tess_nep", "select", "done"}

\* two engines raised, the third returned a text, and a result was returned
C1_Witness ==
    /\ pc = "done"
    /\ raisedBy = {"easyocr", "tesseract-sin"}
    /\ tesseract_nep_text # <<>>
    /\ DOMAIN debug \cap ErrorKeys = {"easy_error", "tess_sin_error"}

\* C2: when all three engines raise, or all three candidates are empty, the
\* selection still succeeds with the empty text and the language 'unknown';
\* when all three raised the diagnostics hold exactly three error entries.
C2_AllEnginesFail ==
    /\ (pc = "done" /\ \A i \in 1..3 : candidates[i].text = <<>>) =>
         /\ chosen_text = <<>>
         /\ detected_lang = "unknown"
    /\ (pc = "done" /\ raisedBy = Engines) =>
         /\ \A i \in 1..3 : candidates[i].text = <<>>
         /\ Cardinality(DOMAIN debug \cap ErrorKeys) = 3
    /\ raisedBy = Engines => pc \in {"select", "done"}

C2_Witness ==
    /\ pc = "done"
    /\ raisedBy = Engines
    /\ chosen_text = <<>>
    /\ detected_lang = "unknown"

\* C3 as stated: the chosen text is exactly the text field of one candidate.
C3_ChosenIsCandidateText ==
    pc = "done" => \E i \in 1..3 : chosen_text = candidates[i].text

\* C3 amended: the chosen text is the text field of one candidate, the
\* selected one, without its leading and trailing whitespace; the candidates'
\* texts are the three engine texts.
C3_ChosenIsStrippedCandidateText ==
    pc = "done" =>
       /\ \A i \in 1..3 : candidates[i].text = RawTexts[i]
       /\ \E i \in 1..3 :
            /\ best = candidates[i]
            /\ chosen_text = Stripped(candidates[i].text)

\* the selected text had whitespace on both sides of a script character
C3_Witness ==
    /\ pc = "done"
    /\ chosen_text # <<>>
    /\ chosen_text # best.text
    /\ best.text[Len(best.text)] \in WhitespaceChars

\* C4: when some candidate has primaryScore > 0, the selected candidate has
\* the lexicographically greatest (primaryScore, lengthScore), and among the
\* candidates with that tuple it is the earliest in the fixed order easyocr,
\* tesseract-nep, tesseract-sin.
C4_RankAndTieBreak ==
    (pc = "done" /\ \E i \in 1..3 : PrimaryOf(RawTexts[i]) > 0) =>
       /\ best.text = RawTexts[BestIndex]
       /\ best.primary_score = PrimaryOf(best.text)
       /\ best.length = Len(Stripped(best.text))
       /\ \A j \in 1..3 : KeyAtLeast(RawTexts[BestIndex], RawTexts[j])
       /\ \A j \in 1..(BestIndex - 1) : ~SameKey(RawTexts[j], RawTexts[BestIndex])

\* tesseract-nep and tesseract-sin tie on a positive tuple above easyocr's
C4_Witness ==
    /\ pc = "done"
    /\ PrimaryOf(tesseract_nep_text) > 0
    /\ SameKey(tesseract_nep_text, tesseract_sin_text)
    /\ tesseract_nep_text # tesseract_sin_text
    /\ ~KeyAtLeast(easy_text, tesseract_nep_text)
    /\ engine_used = "tesseract-nep"

\* C5: when no candidate holds a Devanagari or Sinhala character, the
\* selected candidate has the greatest stripped length, the earliest in the
\* fixed order among the longest, and the language is 'unknown'.
C5_ZeroScoreFallback ==
    (pc = "done" /\ \A i \in 1..3 : ~HasScript(RawTexts[i])) =>
       /\ best.text = RawTexts[BestIndex]
       /\ \A j \in 1..3 :
            Len(Stripped(RawTexts[BestIndex])) >= Len(Stripped(RawTexts[j]))
       /\ \A j \in 1..(BestIndex - 1) :
            Len(Stripped(RawTexts[j])) < Len(Stripped(RawTexts[BestIndex]))
       /\ chosen_text = Stripped(RawTexts[BestIndex])
       /\ detected_lang = "unknown"

\* dev "##", nep "", sin "#": the longest, "##", is chosen
C5_Witness ==
    /\ pc = "done"
    /\ easy_text = <<35, 35>>
    /\ tesseract_nep_text = <<>>
    /\ tesseract_sin_text = <<35>>
    /\ chosen_text = <<35, 35>>
    /\ engine_used = "easyocr"
    /\ detected_lang = "unknown"

\* C6: the language is decided by the chosen text alone: 'ne' exactly when
\* it holds more Devanagari than Sinhala characters, 'si' exactly when more
\* Sinhala, 'unknown' exactly when the counts are equal.
C6_LanguageFromChosenText ==
    pc = "done" =>
       /\ detected_lang \in {"ne", "si", "unknown"}
       /\ detected_lang = "ne" <=> DevCount(chosen_text) > SinCount(chosen_text)
       /\ detected_lang = "si" <=> SinCount(chosen_text) > DevCount(chosen_text)
       /\ detected_lang = "unknown" <=> DevCount(chosen_text) = SinCount(chosen_text)

\* a text chosen from tesseract-sin is labelled 'ne'
C6_Witness ==
    /\ pc = "done"
    /\ engine_used = "tesseract-sin"
    /\ detected_lang = "ne"

\* C7: if exactly one engine returns a non-empty text with a script character
\* and the other two texts are empty, that engine's text is selected and its
\* identifier reported, whichever position it has.
C7_SoleScriptCandidateWins ==
    pc = "done" =>
       \A e \in Engines :
          (/\ TextOf(e) # <<>>
           /\ HasScript(TextOf(e))
           /\ \A o \in Engines \ {e} : TextOf(o) = <<>>) =>
             /\ best.text = TextOf(e)
             /\ best.engine = e
             /\ engine_used = e
             /\ chosen_text = Stripped(TextOf(e))

\* the only text comes from tesseract-sin, last in the fixed order
C7_Witness ==
    /\ pc = "done"
    /\ easy_text = <<>>
    /\ tesseract_nep_text = <<>>
    /\ SinCount(tesseract_sin_text) > 0
    /\ engine_used = "tesseract-sin"
    /\ detected_lang = "si"

\* C8: for every input width w >= 1 the output width is at least 1600:
\* exactly 1600 when w < 1600, and w when w >= 1600.
C8_OutputWidth ==
    pc = "easyocr" =>
       /\ proc_w >= UpscaleWidth
       /\ img_w < UpscaleWidth => proc_w = UpscaleWidth
       /\ img_w >= UpscaleWidth => proc_w = img_w

\* C9: the zero-score fallback never changes the outcome: the selected
\* candidate is the first of the ranked list, which is entry 0 of the
\* diagnostics' candidates.
C9_FallbackIsNoOp ==
    pc = "done" =>
       /\ best = candidates_sorted[1]
       /\ debug["candidates"][1] = best
       /\ engine_used = debug["candidates"][1].engine
       /\ chosen_text = Stripped(debug["candidates"][1].text)

\* the fallback ran and selected a candidate other than easyocr's
C9_Witness ==
    /\ pc = "done"
    /\ \A i \in 1..3 : candidates[i].primary_score = 0
    /\ \E i, j \in 2..3 : i # j /\ candidates[i].length = candidates[j].length
    /\ candidates[1].length < best.length

\* C10: the script counts of the stripped chosen text equal the selected
\* candidate's stored counts, so the language is the one the stored counts
\* give.
C10_RecountAgrees ==
    pc = "done" =>
       /\ DevCount(chosen_text) = best.dev_count
       /\ SinCount(chosen_text) = best.sin_count
       /\ detected_lang = LanguageOf(best.dev_count, best.sin_count)

\* stripping removed whitespace from a selected text with script characters
C10_Witness ==
    /\ pc = "done"
    /\ Len(chosen_text) < Len(best.text)
    /\ best.dev_count + best.sin_count > 0

====
